---- MODULE Spec2Model ----
(***************************************************************************)
(* Model of ScalaImportSorter (scala_import_sorter.py).                    *)
(*                                                                         *)
(* Text is a sequence of lines; a line is a sequence of character codes    *)
(* (code points, so that Python's string comparison is reproduced).  The   *)
(* text '\n'.join(lines) + '\n' is the sequence `lines`, and '\n' * n is   *)
(* n empty lines.                                                          *)
(***************************************************************************)
EXTENDS Integers, Sequences, FiniteSets

VARIABLES fancy, text, file, pos, out, import_clause, import_block,
          num_blank_lines, sorted_clauses, merged_clauses, processed_imports,
          pc, run

vars == <<fancy, text, file, pos, out, import_clause, import_block,
          num_blank_lines, sorted_clauses, merged_clauses, processed_imports,
          pc, run>>

\* ------------------------------------------------------------------ bounds
MaxLines == 4
MaxBlock == 4

\* ----------------------------------------------------------------- strings
kwImport == <<105, 109, 112, 111, 114, 116, 32>>    \* "import "
sDot     == <<46>>                                    \* "."
sComma   == <<44, 32>>                                \* ", "
sArrow   == <<32, 61, 62, 32>>                        \* " => "
sLBrace  == <<123>>                                   \* "{"
sRBrace  == <<125>>                                   \* "}"
sJava    == <<106, 97, 118, 97>>                      \* "java"
sJavax   == <<106, 97, 118, 97, 120>>                 \* "javax"
sScala   == <<115, 99, 97, 108, 97>>                  \* "scala"
sScalax  == <<115, 99, 97, 108, 97, 120>>             \* "scalax"

None == <<>>
NoClause == [path |-> <<>>, imports |-> <<>>]

\* Python 2 cmp() on strings: code-point lexicographic order, -1 / 0 / 1.
RECURSIVE StrCmp(_, _)
StrCmp(s, t) ==
  IF s = <<>> /\ t = <<>> THEN 0
  ELSE IF s = <<>> THEN -1
  ELSE IF t = <<>> THEN 1
  ELSE IF Head(s) < Head(t) THEN -1
  ELSE IF Head(s) > Head(t) THEN 1
  ELSE StrCmp(Tail(s), Tail(t))

\* sep.join(parts)
RECURSIVE Join(_, _)
Join(parts, sep) ==
  IF parts = <<>> THEN <<>>
  ELSE IF Len(parts) = 1 THEN parts[1]
  ELSE parts[1] \o sep \o Join(Tail(parts), sep)

\* s.replace('{', ' ')
Replace(s) == [i \in 1..Len(s) |-> IF s[i] = 123 THEN 32 ELSE s[i]]

IndexOf(s, ch) ==
  IF \E i \in 1..Len(s) : s[i] = ch
  THEN CHOOSE i \in 1..Len(s) : s[i] = ch /\ \A j \in 1..(i-1) : s[j] # ch
  ELSE 0

\* s.split(ch)
RECURSIVE Split(_, _)
Split(s, ch) ==
  LET k == IndexOf(s, ch)
  IN IF k = 0 THEN <<s>>
     ELSE <<SubSeq(s, 1, k-1)>> \o Split(SubSeq(s, k+1, Len(s)), ch)

HasPrefix(s, p) == Len(s) >= Len(p) /\ SubSeq(s, 1, Len(p)) = p

\* ------------------------------------------------- Path, Import, ImportClause
path_string(path) == Join(path, sDot)

get_top_level(path) == path[1]

ImportStr(imp) ==
  IF imp.as_name = None THEN imp.name ELSE imp.name \o sArrow \o imp.as_name

str_no_indent(clause) ==
  kwImport \o path_string(clause.path) \o sDot \o
  (IF Len(clause.imports) = 1 /\ clause.imports[1].as_name = None
   THEN clause.imports[1].name
   ELSE sLBrace
        \o Join([i \in 1..Len(clause.imports) |-> ImportStr(clause.imports[i])], sComma)
        \o sRBrace)

str(clause) == str_no_indent(clause)

add_import(clause, name, as_name) ==
  [clause EXCEPT !.imports = Append(@, [name |-> name, as_name |-> as_name])]

RECURSIVE InsertImport(_, _)
InsertImport(imps, imp) ==
  IF imps = <<>> THEN <<imp>>
  ELSE IF StrCmp(imps[Len(imps)].name, imp.name) <= 0 THEN Append(imps, imp)
  ELSE Append(InsertImport(SubSeq(imps, 1, Len(imps) - 1), imp), imps[Len(imps)])

RECURSIVE SortImportSeq(_)
SortImportSeq(imps) ==
  IF imps = <<>> THEN <<>>
  ELSE InsertImport(SortImportSeq(SubSeq(imps, 1, Len(imps) - 1)), imps[Len(imps)])

sort_imports(clause) == [clause EXCEPT !.imports = SortImportSeq(@)]

\* ---------------------------------------------------------- ScalaImportParser
IsBlank(line) == line = <<>>

IsImport(line) == HasPrefix(line, kwImport)

Statement(line) == SubSeq(line, Len(kwImport) + 1, Len(line))

\* An opened brace that is not closed on the statement is a parse error.
IsMalformed(line) ==
  LET rest == Statement(line)
  IN IndexOf(rest, 123) # 0 /\ rest[Len(rest)] # 125

Trim(s) ==
  LET keep == {i \in 1..Len(s) : s[i] # 32}
  IN IF keep = {} THEN <<>>
     ELSE SubSeq(s, CHOOSE i \in keep : \A j \in keep : i <= j,
                    CHOOSE i \in keep : \A j \in keep : i >= j)

ParseItem(item) ==
  LET tokens == Split(Trim(item), 32)
  IN [name |-> tokens[1],
      as_name |-> IF Len(tokens) >= 3 THEN tokens[3] ELSE None]

Parse(line) ==
  LET rest == Statement(line)
      b == IndexOf(rest, 123)
  IN IF b = 0
     THEN LET parts == Split(rest, 46)
          IN [path |-> SubSeq(parts, 1, Len(parts) - 1),
              imports |-> <<[name |-> parts[Len(parts)], as_name |-> None]>>]
     ELSE LET items == Split(SubSeq(rest, b + 1, Len(rest) - 1), 44)
          IN [path |-> Split(SubSeq(rest, 1, b - 2), 46),
              imports |-> [i \in 1..Len(items) |-> ParseItem(items[i])]]

\* ------------------------------------------------------------ the comparators
special_cases(root) ==
  IF root = sJava THEN <<97, 97, 97, 48>>
  ELSE IF root = sJavax THEN <<97, 97, 97, 49>>
  ELSE IF root = sScala THEN <<97, 97, 97, 50>>
  ELSE IF root = sScalax THEN <<97, 97, 97, 51>>
  ELSE <<>>

IsSpecial(root) == root \in {sJava, sJavax, sScala, sScalax}

string_for_cmp(clause) == Replace(str_no_indent(clause))

cmp_clauses(left, right) == StrCmp(string_for_cmp(left), string_for_cmp(right))

cmp_clauses_fancy(left, right) ==
  LET left_str == path_string(left.path)
      right_str == path_string(right.path)
      left_root == left.path[1]
      right_root == right.path[1]
      left_sort_key == special_cases(left_root) \o left_str
      right_sort_key == special_cases(right_root) \o right_str
  IN StrCmp(left_sort_key, right_sort_key)

cmp(isFancy, left, right) ==
  IF isFancy THEN cmp_clauses_fancy(left, right) ELSE cmp_clauses(left, right)

\* ------------------------------------------------------ _process_import_block
\* sorted(clauses, cmp=cmp): a stable sort.
RECURSIVE InsertClause(_, _, _)
InsertClause(cs, c, isFancy) ==
  IF cs = <<>> THEN <<c>>
  ELSE IF cmp(isFancy, cs[Len(cs)], c) <= 0 THEN Append(cs, c)
  ELSE Append(InsertClause(SubSeq(cs, 1, Len(cs) - 1), c, isFancy), cs[Len(cs)])

RECURSIVE sorted(_, _)
sorted(clauses, isFancy) ==
  IF clauses = <<>> THEN <<>>
  ELSE InsertClause(sorted(SubSeq(clauses, 1, Len(clauses) - 1), isFancy),
                    clauses[Len(clauses)], isFancy)

\* for imp in clause.imports: current_clause.add_import(imp.path.get_name(), imp.as_name)
RECURSIVE AddImports(_, _)
AddImports(current_clause, imps) ==
  IF imps = <<>> THEN current_clause
  ELSE AddImports(add_import(current_clause, Head(imps).name, Head(imps).as_name),
                  Tail(imps))

\* Mutant of MergeStep: a clause of an already seen path is dropped.
MergeStepDropping(merged, clause) ==
  IF merged # <<>> /\ merged[Len(merged)].path = clause.path
  THEN merged
  ELSE Append(merged, clause)

\* One iteration of the merge loop; current_clause is the last of merged.
MergeStep(merged, clause) ==
  IF merged # <<>> /\ merged[Len(merged)].path = clause.path
  THEN [merged EXCEPT ![Len(merged)] = AddImports(@, clause.imports)]
  ELSE Append(merged, clause)

RECURSIVE MergeClauses(_, _)
MergeClauses(merged, rest) ==
  IF rest = <<>> THEN merged
  ELSE MergeClauses(MergeStep(merged, Head(rest)), Tail(rest))

\* The serialization loop, on clauses whose imports are already sorted.
RECURSIVE BlockLines(_, _, _)
BlockLines(clauses, in_special_case_block, isFancy) ==
  IF clauses = <<>> THEN <<>>
  ELSE LET clause == Head(clauses)
       IN IF isFancy /\ IsSpecial(get_top_level(clause.path))
          THEN <<str(clause)>> \o BlockLines(Tail(clauses), TRUE, isFancy)
          ELSE (IF isFancy /\ in_special_case_block THEN << <<>> >> ELSE <<>>)
               \o <<str(clause)>>
               \o BlockLines(Tail(clauses),
                             IF isFancy THEN FALSE ELSE in_special_case_block,
                             isFancy)

process_import_block(clauses, isFancy) ==
  LET sc == sorted(clauses, isFancy)
      mc == MergeClauses(<<>>, sc)
      sm == [i \in 1..Len(mc) |-> sort_imports(mc[i])]
  IN [sorted_clauses |-> sc,
      merged_clauses |-> sm,
      lines |-> BlockLines(sm, FALSE, isFancy)]

\* ------------------------------------------------------------- rewrite cursor
\* Index of the first import statement at or after p, 0 when there is none.
search(t, p) ==
  LET found == {k \in p..Len(t) : IsImport(t[k])}
  IN IF found = {} THEN 0 ELSE CHOOSE k \in found : \A j \in found : k <= j

match(t, p) ==
  IF p <= Len(t) /\ IsImport(t[p])
  THEN IF IsMalformed(t[p]) THEN "error" ELSE "clause"
  ELSE "none"

\* Number of contiguous blank lines at p.
skip_blank_lines(t, p) ==
  LET stops == {k \in p..Len(t) : ~IsBlank(t[k])}
  IN IF stops = {} THEN Len(t) + 1 - p
     ELSE (CHOOSE k \in stops : \A j \in stops : k <= j) - p

BlankLines(n) == [i \in 1..n |-> <<>>]

\* ------------------------------------------------------------------- inputs
\* The statements and lines the texts of the initial states are made of.
sA == <<97>>
sC == <<67>>
sD == <<68>>
sE == <<69>>
sF == <<70>>
sM == <<77>>
sX == <<120>>
sZ == <<90>>
sL == <<76>>
sLowC == <<99>>

Clause(path, name, as_name) ==
  [path |-> path, imports |-> <<[name |-> name, as_name |-> as_name]>>]

lnAC   == str(Clause(<<sA>>, sC, None))            \* import a.C
lnACx  == str(Clause(<<sA, sC>>, sX, None))        \* import a.C.x
lnAD   == str(Clause(<<sA>>, sD, None))            \* import a.D
lnAEZ  == str(Clause(<<sA>>, sE, sZ))              \* import a.{E => Z}
lnJava == str(Clause(<<sJava>>, sM, None))         \* import java.M
lnCF   == str(Clause(<<sLowC>>, sF, None))         \* import c.F
lnScala == str(Clause(<<sScala>>, sL, None))       \* import scala.L
lnBad  == kwImport \o sA \o sDot \o sLBrace \o sC  \* import a.{C
lnCode == sX                                       \* x

FileLines == {lnAD, lnAEZ, lnJava, lnCF, <<>>, lnCode, lnBad}
BlockLinesIn == {lnAC, lnACx, lnAD, lnAEZ, lnJava, lnScala, lnCF}

Texts(lineSet, n) == UNION {[1..k -> lineSet] : k \in 0..n}

\* --------------------------------------------------------------- the machine
InitWith(texts) ==
  /\ fancy \in BOOLEAN
  /\ text \in texts
  /\ file = text
  /\ pos = 1
  /\ out = <<>>
  /\ import_clause = NoClause
  /\ import_block = <<>>
  /\ num_blank_lines = 0
  /\ sorted_clauses = <<>>
  /\ merged_clauses = <<>>
  /\ processed_imports = <<>>
  /\ pc = "search"
  /\ run = 1

Init == InitWith(Texts(FileLines, MaxLines))

InitBlock == InitWith(Texts(BlockLinesIn, MaxBlock) \ {<<>>})

\* import_clause = ScalaImportParser.search(rewrite_cursor), and the head of the
\* outer loop.
Search ==
  /\ pc = "search"
  /\ LET k == search(text, pos)
     IN IF k = 0
        THEN /\ out' = out \o SubSeq(text, pos, Len(text))
             /\ pos' = Len(text) + 1
             /\ import_clause' = NoClause
             /\ pc' = "done"
             /\ UNCHANGED <<import_block, num_blank_lines>>
        ELSE IF IsMalformed(text[k])
        THEN /\ out' = out \o SubSeq(text, pos, k - 1)
             /\ pos' = k
             /\ pc' = "error"
             /\ UNCHANGED <<import_clause, import_block, num_blank_lines>>
        ELSE /\ out' = out \o SubSeq(text, pos, k - 1)
             /\ pos' = k + 1
             /\ import_clause' = Parse(text[k])
             /\ import_block' = <<>>
             /\ num_blank_lines' = 0
             /\ pc' = "collect"
  /\ UNCHANGED <<fancy, text, file, sorted_clauses, merged_clauses,
                 processed_imports, run>>

\* Mutant of Collect: the blank lines of every run of the block are added up.
CollectAddingBlanks ==
  /\ pc = "collect"
  /\ LET n == skip_blank_lines(text, pos)
         p == pos + n
         m == match(text, p)
     IN /\ num_blank_lines' = num_blank_lines + n
        /\ import_block' = Append(import_block, import_clause)
        /\ IF m = "error"
           THEN /\ pos' = p
                /\ pc' = "error"
                /\ UNCHANGED import_clause
           ELSE IF m = "clause"
           THEN /\ pos' = p + 1
                /\ import_clause' = Parse(text[p])
                /\ pc' = "collect"
           ELSE /\ pos' = p
                /\ import_clause' = NoClause
                /\ pc' = "emit"
  /\ UNCHANGED <<fancy, text, file, out, sorted_clauses, merged_clauses,
                 processed_imports, run>>

\* Mutant of Collect: every clause is emitted as soon as it is collected.
CollectEmitting ==
  /\ pc = "collect"
  /\ LET n == skip_blank_lines(text, pos)
         p == pos + n
         m == match(text, p)
     IN /\ num_blank_lines' = n
        /\ import_block' = Append(import_block, import_clause)
        /\ out' = Append(out, str(import_clause))
        /\ IF m = "error"
           THEN /\ pos' = p
                /\ pc' = "error"
                /\ UNCHANGED import_clause
           ELSE IF m = "clause"
           THEN /\ pos' = p + 1
                /\ import_clause' = Parse(text[p])
                /\ pc' = "collect"
           ELSE /\ pos' = p
                /\ import_clause' = NoClause
                /\ pc' = "emit"
  /\ UNCHANGED <<fancy, text, file, sorted_clauses, merged_clauses,
                 processed_imports, run>>

\* Mutant of Collect: the next statement is looked for with search, not match.
CollectSearching ==
  /\ pc = "collect"
  /\ LET n == skip_blank_lines(text, pos)
         p == pos + n
         k == search(text, p)
     IN /\ num_blank_lines' = n
        /\ import_block' = Append(import_block, import_clause)
        /\ IF k = 0
           THEN /\ pos' = Len(text) + 1
                /\ out' = out \o SubSeq(text, p, Len(text))
                /\ import_clause' = NoClause
                /\ pc' = "emit"
           ELSE IF IsMalformed(text[k])
           THEN /\ pos' = k
                /\ out' = out \o SubSeq(text, p, k - 1)
                /\ pc' = "error"
                /\ UNCHANGED import_clause
           ELSE /\ pos' = k + 1
                /\ out' = out \o SubSeq(text, p, k - 1)
                /\ import_clause' = Parse(text[k])
                /\ pc' = "collect"
  /\ UNCHANGED <<fancy, text, file, sorted_clauses, merged_clauses,
                 processed_imports, run>>

\* One iteration of the inner loop.
Collect ==
  /\ pc = "collect"
  /\ LET n == skip_blank_lines(text, pos)
         p == pos + n
         m == match(text, p)
     IN /\ num_blank_lines' = n
        /\ import_block' = Append(import_block, import_clause)
        /\ IF m = "error"
           THEN /\ pos' = p
                /\ pc' = "error"
                /\ UNCHANGED import_clause
           ELSE IF m = "clause"
           THEN /\ pos' = p + 1
                /\ import_clause' = Parse(text[p])
                /\ pc' = "collect"
           ELSE /\ pos' = p
                /\ import_clause' = NoClause
                /\ pc' = "emit"
  /\ UNCHANGED <<fancy, text, file, out, sorted_clauses, merged_clauses,
                 processed_imports, run>>

\* The end of the inner loop: process the block and emit it.
EmitBlock ==
  /\ pc = "emit"
  /\ LET r == process_import_block(import_block, fancy)
     IN /\ sorted_clauses' = r.sorted_clauses
        /\ merged_clauses' = r.merged_clauses
        /\ processed_imports' = r.lines
        /\ out' = out \o r.lines \o BlankLines(num_blank_lines)
  /\ pc' = "search"
  /\ UNCHANGED <<fancy, text, file, pos, import_clause, import_block,
                 num_blank_lines, run>>

\* The rewriter replaces the file once apply_to_rewrite_cursor has returned.
Finish ==
  /\ pc = "done"
  /\ file' = out
  /\ pc' = "written"
  /\ UNCHANGED <<fancy, text, pos, out, import_clause, import_block,
                 num_blank_lines, sorted_clauses, merged_clauses,
                 processed_imports, run>>

\* The sorter is run again, with the same options, on the file it rewrote.
Rerun ==
  /\ pc = "written"
  /\ run = 1
  /\ run' = 2
  /\ text' = file
  /\ pos' = 1
  /\ out' = <<>>
  /\ import_clause' = NoClause
  /\ import_block' = <<>>
  /\ num_blank_lines' = 0
  /\ sorted_clauses' = <<>>
  /\ merged_clauses' = <<>>
  /\ processed_imports' = <<>>
  /\ pc' = "search"
  /\ UNCHANGED <<fancy, file>>

Next == Search \/ Collect \/ EmitBlock \/ Finish

NextTwice == Search \/ Collect \/ EmitBlock \/ Finish \/ Rerun

Spec == Init /\ [][Next]_vars

SpecBlock == InitBlock /\ [][Next]_vars

SpecTwice == InitBlock /\ [][NextTwice]_vars

\* ============================================================== properties
\* A block has just been processed and emitted.
Processed == pc = "search" /\ import_block # <<>>

NonBlank(line) == line # <<>>

\* The clauses of the emitted block text, read back from it.
OutputClauses ==
  LET ls == SelectSeq(processed_imports, NonBlank)
  IN [i \in 1..Len(ls) |-> Parse(ls[i])]

RECURSIVE TriplesOf(_)
TriplesOf(clauses) ==
  IF clauses = <<>> THEN <<>>
  ELSE LET c == Head(clauses)
       IN [i \in 1..Len(c.imports) |->
             <<c.path, c.imports[i].name, c.imports[i].as_name>>]
          \o TriplesOf(Tail(clauses))

Count(seq, x) == Cardinality({i \in 1..Len(seq) : seq[i] = x})

SameBag(s, t) ==
  /\ Len(s) = Len(t)
  /\ \A i \in 1..Len(s) : Count(s, s[i]) = Count(t, s[i])

IsLetter(ch) == (ch >= 65 /\ ch <= 90) \/ (ch >= 97 /\ ch <= 122)

TopIsSpecial(clause) == IsSpecial(clause.path[1])

\* ---- C1: running the sorter on its own output gives that output again, in
\* ---- both modes.
C1Claim == (pc = "written" /\ run = 2) => file = text

\* The same, in fancy mode only.
C1FancyOnly == (pc = "written" /\ run = 2 /\ fancy) => file = text

\* ---- C2: in fancy mode every output clause with a special top-level segment
\* ---- comes before every output clause with another top-level segment.
C2Claim ==
  (Processed /\ fancy) =>
    \A i, j \in 1..Len(OutputClauses) :
      (TopIsSpecial(OutputClauses[i]) /\ ~TopIsSpecial(OutputClauses[j])) => i < j

\* ---- C3: two clauses adjacent after the sort with equal paths give exactly
\* ---- one output clause for that path, whose imports are the multiset union
\* ---- of the imports of the input clauses of that path.
ImportsOfPath(clauses, p) ==
  LET same(c) == c.path = p
  IN TriplesOf(SelectSeq(clauses, same))

\* C3: adjacent equal paths give one output clause holding the union of imports.
C3Claim ==
  Processed =>
    \A i \in 1..(Len(sorted_clauses) - 1) :
      sorted_clauses[i].path = sorted_clauses[i+1].path =>
        LET p == sorted_clauses[i].path
            hits == {k \in 1..Len(OutputClauses) : OutputClauses[k].path = p}
        IN /\ Cardinality(hits) = 1
           /\ \A k \in hits :
                SameBag(TriplesOf(<<OutputClauses[k]>>), ImportsOfPath(import_block, p))

\* ---- C4: the (path, name, alias) triples of the serialized clauses are, as a
\* ---- multiset, those of the clauses collected for the block.
C4Theorem ==
  Processed =>
    /\ SameBag(TriplesOf(import_block), TriplesOf(merged_clauses))
    /\ SameBag(TriplesOf(import_block), TriplesOf(OutputClauses))

C4Witness ==
  /\ Processed
  /\ Len(merged_clauses) < Len(import_block)
  /\ Len(merged_clauses) >= 2
  /\ \E i \in 1..Len(merged_clauses) :
       /\ Len(merged_clauses[i].imports) >= 2
       /\ \E k \in 1..Len(merged_clauses[i].imports) :
            merged_clauses[i].imports[k].as_name # None

\* ---- C5: in strict mode, of two clauses of the processed block whose texts
\* ---- agree up to a position where one has "{" and the other a letter, the
\* ---- braced one comes first.
BraceAgainstLetter(s, t) ==
  \E k \in 1..Len(s) :
    /\ k <= Len(t)
    /\ SubSeq(s, 1, k - 1) = SubSeq(t, 1, k - 1)
    /\ s[k] = 123
    /\ IsLetter(t[k])

C5Claim ==
  (Processed /\ ~fancy) =>
    \A i, j \in 1..Len(processed_imports) :
      BraceAgainstLetter(processed_imports[i], processed_imports[j]) => i < j

\* The same of the texts of the clauses as collected, in the sorted sequence.
C5OnSortedInput ==
  (Processed /\ ~fancy) =>
    \A i, j \in 1..Len(sorted_clauses) :
      BraceAgainstLetter(str(sorted_clauses[i]), str(sorted_clauses[j])) => i < j

\* ---- C6: the lines outside import blocks are reproduced unchanged, in order
\* ---- and at their place relative to the imports; a text without import
\* ---- statements is reproduced as it is.
InBlockBlank(t, i) ==
  /\ IsBlank(t[i])
  /\ \E j \in 1..(i-1) : IsImport(t[j]) /\ \A m \in (j+1)..i : IsBlank(t[m])

IsOutside(t, i) == ~IsImport(t[i]) /\ ~InBlockBlank(t, i)

OutsideIdx(t) == {i \in 1..Len(t) : IsOutside(t, i)}

\* Index in t of its k-th outside line.
KthOutside(t, k) ==
  CHOOSE i \in OutsideIdx(t) : Cardinality({j \in OutsideIdx(t) : j <= i}) = k

\* The imported symbols of the statements before line i.
SymbolsBefore(t, i) ==
  TriplesOf([j \in 1..Cardinality({m \in 1..(i-1) : IsImport(t[m])}) |->
               Parse(t[CHOOSE m \in 1..(i-1) :
                         /\ IsImport(t[m])
                         /\ Cardinality({q \in 1..m : IsImport(t[q])}) = j])])

\* C6: outside lines are kept, in order and in place; no imports, no change.
C6Theorem ==
  pc = "written" =>
    /\ Cardinality(OutsideIdx(file)) = Cardinality(OutsideIdx(text))
    /\ \A k \in 1..Cardinality(OutsideIdx(text)) :
         /\ file[KthOutside(file, k)] = text[KthOutside(text, k)]
         /\ SameBag(SymbolsBefore(file, KthOutside(file, k)),
                    SymbolsBefore(text, KthOutside(text, k)))
    /\ (search(text, 1) = 0 => file = text)

C6Witness ==
  /\ pc = "written"
  /\ Len(text) = 4
  /\ IsOutside(text, 1) /\ ~IsBlank(text[1])
  /\ IsImport(text[2])
  /\ IsOutside(text, 3) /\ ~IsBlank(text[3])
  /\ IsImport(text[4])
  /\ file = text

\* ---- C7: a parse error stops the run; nothing of the block being collected
\* ---- has been emitted, and the file keeps its original content.
C7Theorem ==
  /\ [][pc' = "error" => (file' = file /\ (pc = "collect" => out' = out))]_vars
  /\ [](pc = "error" => (file = text /\ ~ENABLED Next))

C7Witness ==
  /\ pc = "error"
  /\ processed_imports # <<>>
  /\ pos = 4
  /\ IsImport(text[3])
  /\ import_block # <<>>
  /\ file = text

\* ---- C8: a block is emitted as its processed text followed by exactly the
\* ---- blank lines that follow its last statement; the blank lines between
\* ---- its statements are not emitted.
\* Number of contiguous blank lines of t that end just before line p.
BlanksEndingAt(t, p) ==
  LET stops == {k \in 1..(p-1) : ~IsBlank(t[k])}
  IN IF stops = {} THEN p - 1
     ELSE p - 1 - (CHOOSE k \in stops : \A j \in stops : k >= j)

\* C8: the emitted block is followed by exactly the blank lines after its last
\* statement.
C8Theorem ==
  [][pc = "emit" =>
       LET b == BlanksEndingAt(text, pos)
           n == Len(processed_imports')
       IN /\ Len(out') = Len(out) + n + b
          /\ SubSeq(out', 1, Len(out)) = out
          /\ SubSeq(out', Len(out) + 1, Len(out) + n) = processed_imports'
          /\ \A i \in (Len(out) + n + 1)..Len(out') : IsBlank(out'[i])
          /\ n >= 1 /\ ~IsBlank(processed_imports'[n])
          /\ (~fancy => \A i \in 1..n : ~IsBlank(processed_imports'[i]))]_vars

C8Witness ==
  /\ Processed
  /\ ~fancy
  /\ Len(text) = 4
  /\ IsImport(text[1]) /\ IsBlank(text[2]) /\ IsImport(text[3]) /\ IsBlank(text[4])
  /\ Len(import_block) = 2
  /\ Len(out) = Len(merged_clauses) + 1

\* ---- C9: in fancy mode one empty line is emitted before a clause exactly
\* ---- when the clause before it is special and it is not, in strict mode no
\* ---- empty line is emitted inside a block; so when both groups are present
\* ---- exactly one blank line separates them.
RECURSIVE SeparatedLines(_, _, _)
SeparatedLines(clauses, k, isFancy) ==
  IF k > Len(clauses) THEN <<>>
  ELSE (IF /\ isFancy
           /\ k > 1
           /\ TopIsSpecial(clauses[k-1])
           /\ ~TopIsSpecial(clauses[k])
        THEN << <<>> >> ELSE <<>>)
       \o <<str(clauses[k])>>
       \o SeparatedLines(clauses, k + 1, isFancy)

\* The separator rule of C9 alone.
C9Rule == Processed => processed_imports = SeparatedLines(merged_clauses, 1, fancy)

LineIsSpecial(line) == TopIsSpecial(Parse(line))

\* The consequence stated by C9: one blank line, specials before it, the rest after.
C9Groups ==
  (/\ Processed
   /\ fancy
   /\ \E i \in 1..Len(merged_clauses) : TopIsSpecial(merged_clauses[i])
   /\ \E i \in 1..Len(merged_clauses) : ~TopIsSpecial(merged_clauses[i]))
  => \E b \in 1..Len(processed_imports) :
       /\ IsBlank(processed_imports[b])
       /\ \A i \in 1..Len(processed_imports) :
            /\ i < b => /\ ~IsBlank(processed_imports[i])
                        /\ LineIsSpecial(processed_imports[i])
            /\ i > b => /\ ~IsBlank(processed_imports[i])
                        /\ ~LineIsSpecial(processed_imports[i])

\* C9: the separator rule, and one blank line between the two groups.
C9Claim == C9Rule /\ C9Groups

\* ---- C10: after the sort the clauses of equal path are contiguous, in both
\* ---- modes, so that no two output clauses have the same path.
C10Claim ==
  Processed =>
    /\ \A i, j \in 1..Len(sorted_clauses) :
         (i < j /\ sorted_clauses[i].path = sorted_clauses[j].path) =>
           \A k \in i..j : sorted_clauses[k].path = sorted_clauses[i].path
    /\ \A i, j \in 1..Len(OutputClauses) :
         OutputClauses[i].path = OutputClauses[j].path => i = j

\* The same, in fancy mode only.
C10FancyOnly == fancy => C10Claim

====
